---- MODULE Spec2Model ----
(***************************************************************************)
(* Model of pythoneda/artifact/git/git_artifact.py.                        *)
(*                                                                         *)
(* GitArtifact.listen_ChangeStagingCodeRequested receives a                *)
(* ChangeStagingCodeRequested event, builds a JupyterlabCodeRequest        *)
(* (an ordered list of markdown and code cells) and emits a                *)
(* ChangeStagingCodeDescribed event holding it.  The code cells form a     *)
(* script; a notebook kernel later executes them in order.  Both halves    *)
(* are modelled: the coroutine, one step per statement, and the execution  *)
(* of the generated cells, one step per code cell.                         *)
(***************************************************************************)
EXTENDS Integers, Sequences, FiniteSets, TLC

\* Number of ChangeStagingCodeRequested events delivered to the listener.
NumReq == 2

\* Number of emitted code requests the notebook kernel executes.
NumRuns == 1

\* Number of cells a caller of the library appends to a code request of its own.
MaxCells == 2

\* Number of threads that call GitArtifact.instance().
NumCallers == 3

VARIABLES
    event,         \* event[r]: the ChangeStagingCodeRequested given to invocation r
    pc,            \* pc[r]: position of invocation r of the coroutine
    code_request,  \* code_request[r]: the cells appended so far (line 85 onwards)
    result,        \* result[r]: <<>> (None) or <<the returned event>>
    logger,        \* GitArtifact.logger(): the records logged by the listener
    emitted,       \* the calls made to EventEmitter.emit, in call order
    running,       \* the invocation the event loop is executing, 0 when none
    runs,          \* the kernel's executions of emitted code requests
    staged,        \* the ChangeStaged events emitted by executed scripts
    document,      \* a code request a caller of the library fills cell by cell
    singleton,     \* GitArtifact._singleton: <<>> (None) or <<the instance>>
    caller,        \* caller[t]: the call of GitArtifact.instance() made by thread t
    initialized    \* the number of calls of initialize() made so far

vars ==
    <<event, pc, code_request, result, logger, emitted, running, runs, staged,
      document, singleton, caller, initialized>>

Requests == 1..NumReq

(***************************************************************************)
(* Values                                                                  *)
(***************************************************************************)

\* event.change.unidiff_text: None, a str (possibly empty), or a value that is
\* not a str (bytes), which json.dumps rejects.
NoneText == [type |-> "NoneType", value |-> "None"]
EmptyText == [type |-> "str", value |-> ""]
DiffText == [type |-> "str", value |-> "+line1\n-line2\n"]
BytesText == [type |-> "bytes", value |-> "b'+line1'"]

UnidiffTexts == {NoneText, EmptyText, DiffText, BytesText}

\* event.change: serializable is whether change.to_json() succeeds.  The changes
\* delivered are the well-formed ones, one for each diff text, and a malformed
\* one whose payload cannot be serialized.
Change(text, ok) ==
    [repository_folder |-> "/repo",
     repository_url |-> "https://github.com/acme/repo",
     branch |-> "main",
     unidiff_text |-> text,
     serializable |-> ok]

Changes == {Change(t, TRUE) : t \in UnidiffTexts} \cup {Change(DiffText, FALSE)}

NoChange ==
    [repository_folder |-> "", repository_url |-> "", branch |-> "",
     unidiff_text |-> NoneText, serializable |-> TRUE]

\* event.id of the r-th delivered event (events carry distinct ids).
EventId(r) == <<"uuid", r>>

NoId == <<>>

NoEvent == [id |-> NoId, change |-> NoChange]

(***************************************************************************)
(* Conversions used while the texts of the cells are built                 *)
(***************************************************************************)

\* An f-string replacement field {x}: format(x), the text of the value.
Format(u) == u.value

\* json.dumps(x) raises TypeError for a value that is not JSON serializable
\* (bytes); None and str are serializable.
JsonDumpsRaises(u) == u.type = "bytes"

\* json.dumps(x) of a str: a double-quoted, escaped literal.  The literal is kept
\* as the token the Python parser reads back (PyLiteralValue below).
JsonDumps(u) == [quoted |-> u.value]

\* The value a Python interpreter gives to a string literal written by json.dumps.
PyLiteralValue(lit) == lit.quoted

\* event.change.to_json(): the JSON text of a change; raises for a malformed one.
ToJsonRaises(c) == ~c.serializable

ToJson(c) == [type |-> "str", value |-> c]

\* Change.from_json(text), as called by the generated emit_event.
FromJson(text) == text

(***************************************************************************)
(* Lines 92-121: the dependencies given to every append_code call          *)
(***************************************************************************)

PythonedaDependency(name, version) == [name |-> name, version |-> version]

\* Mutant: the list declares unidiff twice, with two versions.
dependencies_unidiff_twice ==
    << PythonedaDependency("dbus-next", "latest"),
       PythonedaDependency("grpcio", "latest"),
       PythonedaDependency("jupyterlab", "latest"),
       PythonedaDependency("pythoneda-artifact-code-request-application", "latest"),
       PythonedaDependency("pythoneda-artifact-code-request-infrastructure", "latest"),
       PythonedaDependency("pythoneda-shared-artifact-changes-events", "latest"),
       PythonedaDependency("pythoneda-shared-artifact-changes-events-infrastructure", "latest"),
       PythonedaDependency("pythoneda-shared-artifact-changes-shared", "latest"),
       PythonedaDependency("pythoneda-shared-code-requests-events", "latest"),
       PythonedaDependency("pythoneda-shared-code-requests-events-infrastructure", "latest"),
       PythonedaDependency("pythoneda-shared-code-requests-shared", "latest"),
       PythonedaDependency("pythoneda-shared-git-shared", "latest"),
       PythonedaDependency("pythoneda-shared-nix-flake-shared", "latest"),
       PythonedaDependency("pythoneda-shared-pythoneda-application", "latest"),
       PythonedaDependency("pythoneda-shared-pythoneda-banner", "latest"),
       PythonedaDependency("pythoneda-shared-pythoneda-domain", "latest"),
       PythonedaDependency("pythoneda-shared-pythoneda-infrastructure", "latest"),
       PythonedaDependency("requests", "latest"),
       PythonedaDependency("unidiff", "1.0"),
       PythonedaDependency("unidiff", "latest") >>

dependencies ==
    << PythonedaDependency("dbus-next", "latest"),
       PythonedaDependency("grpcio", "latest"),
       PythonedaDependency("jupyterlab", "latest"),
       PythonedaDependency("pythoneda-artifact-code-request-application", "latest"),
       PythonedaDependency("pythoneda-artifact-code-request-infrastructure", "latest"),
       PythonedaDependency("pythoneda-shared-artifact-changes-events", "latest"),
       PythonedaDependency("pythoneda-shared-artifact-changes-events-infrastructure", "latest"),
       PythonedaDependency("pythoneda-shared-artifact-changes-shared", "latest"),
       PythonedaDependency("pythoneda-shared-code-requests-events", "latest"),
       PythonedaDependency("pythoneda-shared-code-requests-events-infrastructure", "latest"),
       PythonedaDependency("pythoneda-shared-code-requests-shared", "latest"),
       PythonedaDependency("pythoneda-shared-git-shared", "latest"),
       PythonedaDependency("pythoneda-shared-nix-flake-shared", "latest"),
       PythonedaDependency("pythoneda-shared-pythoneda-application", "latest"),
       PythonedaDependency("pythoneda-shared-pythoneda-banner", "latest"),
       PythonedaDependency("pythoneda-shared-pythoneda-domain", "latest"),
       PythonedaDependency("pythoneda-shared-pythoneda-infrastructure", "latest"),
       PythonedaDependency("requests", "latest"),
       PythonedaDependency("stringtemplate3", "latest"),
       PythonedaDependency("unidiff", "latest") >>

(***************************************************************************)
(* Lines 123-223: the texts of the cells.  A text is the template it was   *)
(* written from (tpl) and the values interpolated into it.                 *)
(***************************************************************************)

Blank ==
    [tpl |-> "", folder |-> "", url |-> "", branch |-> "", diff |-> "",
     diff_literal |-> <<>>, change_literal |-> <<>>, id |-> NoId]

\* Mutant: the introduction carries a counter of the events emitted so far.
introduction_counts_emitted(e) ==
    [Blank EXCEPT !.tpl = "introduction",
                  !.folder = e.change.repository_folder,
                  !.url = e.change.repository_url,
                  !.branch = e.change.branch,
                  !.diff = IF emitted = <<>> THEN Format(e.change.unidiff_text)
                           ELSE "#1"]

introduction(e) ==
    [Blank EXCEPT !.tpl = "introduction",
                  !.folder = e.change.repository_folder,
                  !.url = e.change.repository_url,
                  !.branch = e.change.branch,
                  !.diff = Format(e.change.unidiff_text)]

git_import_description(e) == [Blank EXCEPT !.tpl = "git_import_description"]

git_import_code(e) == [Blank EXCEPT !.tpl = "git_import_code"]

create_diff_description(e) == [Blank EXCEPT !.tpl = "create_diff_description"]

create_diff_code(e) ==
    [Blank EXCEPT !.tpl = "create_diff_code",
                  !.diff_literal = <<JsonDumps(e.change.unidiff_text)>>]

git_stash_description(e) == [Blank EXCEPT !.tpl = "git_stash_description"]

git_stash_push_code(e) ==
    [Blank EXCEPT !.tpl = "git_stash_push_code",
                  !.folder = e.change.repository_folder,
                  !.id = e.id]

git_apply_description(e) == [Blank EXCEPT !.tpl = "git_apply_description"]

git_apply_code(e) ==
    [Blank EXCEPT !.tpl = "git_apply_code",
                  !.folder = e.change.repository_folder,
                  !.id = e.id]

git_add_description(e) == [Blank EXCEPT !.tpl = "git_add_description"]

git_add_code(e) ==
    [Blank EXCEPT !.tpl = "git_add_code",
                  !.folder = e.change.repository_folder,
                  !.id = e.id]

\* Line 199 assigns git_add_description a second time: the "Emit event" text.
git_add_description_emit(e) == [Blank EXCEPT !.tpl = "emit_event_description"]

\* Mutant: the text is built from the event of the first invocation, kept in a
\* place all invocations share.
git_add_code_emit_first_event(e) ==
    [Blank EXCEPT !.tpl = "emit_event_code",
                  !.change_literal = <<JsonDumps(ToJson(event[1].change))>>,
                  !.id = event[1].id]

\* Line 204 assigns git_add_code a second time: the CodeRequest class and its run.
git_add_code_emit(e) ==
    [Blank EXCEPT !.tpl = "emit_event_code",
                  !.change_literal = <<JsonDumps(ToJson(e.change))>>,
                  !.id = e.id]

\* The statements of lines 123-224 in program order: the text each builds and
\* the append call that follows it.
Program ==
    << [label |-> "introduction", kind |-> "markdown"],
       [label |-> "git_import_description", kind |-> "markdown"],
       [label |-> "git_import_code", kind |-> "code"],
       [label |-> "create_diff_description", kind |-> "markdown"],
       [label |-> "create_diff_code", kind |-> "code"],
       [label |-> "git_stash_description", kind |-> "markdown"],
       [label |-> "git_stash_push_code", kind |-> "code"],
       [label |-> "git_apply_description", kind |-> "markdown"],
       [label |-> "git_apply_code", kind |-> "code"],
       [label |-> "git_add_description", kind |-> "markdown"],
       [label |-> "git_add_code", kind |-> "code"],
       [label |-> "git_add_description_emit", kind |-> "markdown"],
       [label |-> "git_add_code_emit", kind |-> "code"] >>

Labels == {Program[i].label : i \in DOMAIN Program}

StatementAt(label) == CHOOSE i \in DOMAIN Program : Program[i].label = label

TextOf(label, e) ==
    CASE label = "introduction" -> introduction(e)
      [] label = "git_import_description" -> git_import_description(e)
      [] label = "git_import_code" -> git_import_code(e)
      [] label = "create_diff_description" -> create_diff_description(e)
      [] label = "create_diff_code" -> create_diff_code(e)
      [] label = "git_stash_description" -> git_stash_description(e)
      [] label = "git_stash_push_code" -> git_stash_push_code(e)
      [] label = "git_apply_description" -> git_apply_description(e)
      [] label = "git_apply_code" -> git_apply_code(e)
      [] label = "git_add_description" -> git_add_description(e)
      [] label = "git_add_code" -> git_add_code(e)
      [] label = "git_add_description_emit" -> git_add_description_emit(e)
      [] label = "git_add_code_emit" -> git_add_code_emit(e)

\* Mutant: an exception raised while a text is built is swallowed.
TextRaises_swallowed(label, e) == FALSE

\* Evaluating the f-string of a statement raises when a call inside it raises:
\* json.dumps(event.change.unidiff_text) at line 154, event.change.to_json() at
\* line 216.
TextRaises(label, e) ==
    \/ label = "create_diff_code" /\ JsonDumpsRaises(e.change.unidiff_text)
    \/ label = "git_add_code_emit" /\ ToJsonRaises(e.change)

\* Mutant: the statement after git_stash_push_code is lost.
AfterAppend_skips_statement(i) ==
    IF i = 7 THEN Program[9].label
    ELSE IF i < Len(Program) THEN Program[i + 1].label ELSE "emit"

\* Mutant: the result is built and emitted before the last append_code.
AfterAppend_emits_early(i) ==
    IF i < Len(Program) - 1 THEN Program[i + 1].label ELSE "emit"

\* The statement that follows the append of statement i: the next text, or the
\* construction of the result at line 225.
AfterAppend(i) == IF i < Len(Program) THEN Program[i + 1].label ELSE "emit"

\* Mutant: a markdown cell replaces the cells instead of being added to them.
append_markdown_overwrites(cells, txt) ==
    << [kind |-> "markdown", text |-> txt, dependencies |-> <<>>] >>

\* JupyterlabCodeRequest.append_markdown(txt) / append_code(txt, dependencies):
\* one more cell at the end of the code request.
append_markdown(cells, txt) ==
    Append(cells, [kind |-> "markdown", text |-> txt, dependencies |-> <<>>])

\* Mutant: the code cell is appended without its dependencies.
append_code_without_dependencies(cells, txt, deps) ==
    Append(cells, [kind |-> "code", text |-> txt, dependencies |-> <<>>])

append_code(cells, txt, deps) ==
    Append(cells, [kind |-> "code", text |-> txt, dependencies |-> deps])

\* Mutant: the result is given the id of the first event instead of event.id.
ChangeStagingCodeDescribed_first_id(cells, id) ==
    [code_request |-> cells, id |-> EventId(1)]

\* Line 225: ChangeStagingCodeDescribed(code_request, event.id).
ChangeStagingCodeDescribed(cells, id) == [code_request |-> cells, id |-> id]

(***************************************************************************)
(* The coroutine GitArtifact.listen_ChangeStagingCodeRequested             *)
(*                                                                         *)
(* The event loop runs one coroutine at a time and switches only at an     *)
(* await: `running` is the invocation being executed.                      *)
(***************************************************************************)

Init ==
    /\ event = [r \in Requests |-> NoEvent]
    /\ pc = [r \in Requests |-> "idle"]
    /\ code_request = [r \in Requests |-> <<>>]
    /\ result = [r \in Requests |-> <<>>]
    /\ logger = <<>>
    /\ emitted = <<>>
    /\ running = 0
    /\ runs = <<>>
    /\ staged = <<>>
    /\ document = <<>>
    /\ singleton = <<>>
    /\ caller = [t \in 1..NumCallers |-> [pc |-> "idle", got |-> <<>>]]
    /\ initialized = 0

\* The dispatcher calls the listener with the r-th event.
\* Line 85: code_request = JupyterlabCodeRequest().
Deliver(r) ==
    /\ running = 0
    /\ pc[r] = "idle"
    /\ IF r = 1 THEN TRUE ELSE pc[r - 1] # "idle"
    /\ \E c \in Changes :
          event' = [event EXCEPT ![r] = [id |-> EventId(r), change |-> c]]
    /\ code_request' = [code_request EXCEPT ![r] = <<>>]
    /\ pc' = [pc EXCEPT ![r] = "check"]
    /\ running' = r
    /\ UNCHANGED <<result, logger, emitted, runs, staged>>
    /\ UNCHANGED <<document, singleton, caller, initialized>>

\* Line 86: the test that discards a request.
NothingToStage(e) == e.change.unidiff_text.type = "NoneType"

\* Lines 86-91: no diff, log and return None.
Discard(r) ==
    /\ running = r
    /\ pc[r] = "check"
    /\ NothingToStage(event[r])
    /\ logger' = Append(logger, [level |-> "info", msg |-> "No changes to stage",
                                 folder |-> event[r].change.repository_folder, by |-> r])
    /\ result' = [result EXCEPT ![r] = <<>>]
    /\ pc' = [pc EXCEPT ![r] = "returned"]
    /\ running' = 0
    /\ UNCHANGED <<event, code_request, emitted, runs, staged>>
    /\ UNCHANGED <<document, singleton, caller, initialized>>

\* Lines 86, 92-121: a diff is present, go on to the first text.
Proceed(r) ==
    /\ running = r
    /\ pc[r] = "check"
    /\ ~NothingToStage(event[r])
    /\ pc' = [pc EXCEPT ![r] = Program[1].label]
    /\ UNCHANGED <<event, code_request, result, logger, emitted, running, runs, staged>>
    /\ UNCHANGED <<document, singleton, caller, initialized>>

\* Lines 123-224: one statement pair, the text and its append call.  An exception
\* raised while the text is built leaves the coroutine.
AppendSegment(r) ==
    /\ running = r
    /\ pc[r] \in Labels
    /\ LET i == StatementAt(pc[r])
           txt == TextOf(pc[r], event[r])
       IN IF TextRaises(pc[r], event[r])
          THEN /\ pc' = [pc EXCEPT ![r] = "raised"]
               /\ running' = 0
               /\ UNCHANGED code_request
          ELSE /\ code_request' =
                     [code_request EXCEPT ![r] =
                         IF Program[i].kind = "markdown"
                         THEN append_markdown(@, txt)
                         ELSE append_code(@, txt, dependencies)]
               /\ pc' = [pc EXCEPT ![r] = AfterAppend(i)]
               /\ UNCHANGED running
    /\ UNCHANGED <<event, result, logger, emitted, runs, staged>>
    /\ UNCHANGED <<document, singleton, caller, initialized>>

\* Lines 225-227: build the result, log it, call EventEmitter.emit and await it.
Emit(r) ==
    /\ running = r
    /\ pc[r] = "emit"
    /\ LET res == ChangeStagingCodeDescribed(code_request[r], event[r].id)
       IN /\ result' = [result EXCEPT ![r] = <<res>>]
          /\ logger' = Append(logger, [level |-> "info", msg |-> "Emitting",
                                       folder |-> event[r].change.repository_folder,
                                       by |-> r])
          /\ emitted' = Append(emitted, [event |-> res, by |-> r])
    /\ pc' = [pc EXCEPT ![r] = "awaiting"]
    /\ running' = 0
    /\ UNCHANGED <<event, code_request, runs, staged>>
    /\ UNCHANGED <<document, singleton, caller, initialized>>

\* Line 228: the awaited emit completes and the coroutine returns result.
Return(r) ==
    /\ running = 0
    /\ pc[r] = "awaiting"
    /\ pc' = [pc EXCEPT ![r] = "returned"]
    /\ UNCHANGED <<event, code_request, result, logger, emitted, running, runs, staged>>
    /\ UNCHANGED <<document, singleton, caller, initialized>>

(***************************************************************************)
(* Execution of the generated script                                       *)
(*                                                                         *)
(* A notebook kernel takes an emitted code request and executes its code   *)
(* cells in document order in one namespace.  GitStash.push, GitApply.apply *)
(* and GitAdd.add_all either succeed or raise the failure their cell       *)
(* catches.                                                                *)
(***************************************************************************)

GitOutcomes == {"ok", "failed"}

\* Mutant: the import cell does not import tempfile.
ImportedNames_without_tempfile ==
    {"asyncio", "logging", "PythonedaContext", "GitAdd", "GitAddAllFailed",
     "GitApply", "GitApplyFailed", "GitStash", "GitStashPushFailed"}

\* Names bound by the import cell, lines 139-143.
ImportedNames ==
    {"asyncio", "logging", "PythonedaContext", "GitAdd", "GitAddAllFailed",
     "GitApply", "GitApplyFailed", "GitStash", "GitStashPushFailed", "tempfile"}

NoFile == [exists |-> FALSE, closed |-> FALSE, content |-> ""]

\* A fresh kernel namespace for the code request of the k-th emit call.
NewRun(k) ==
    [of |-> k,
     cell |-> 0,
     names |-> {},
     flag |-> "unbound",
     stash_id |-> "",
     patchfile |-> NoFile,
     ops |-> <<>>,
     log |-> <<>>,
     status |-> "running"]

\* The cells run k executes: the code request of the k-th emitted event.
CellsOf(k) == emitted[k].event.code_request

\* The first code cell after position i of a code request; Len + 1 when none.
NextCode(cells, i) ==
    IF \E j \in (i + 1)..Len(cells) : cells[j].kind = "code"
    THEN CHOOSE j \in (i + 1)..Len(cells) :
            /\ cells[j].kind = "code"
            /\ \A h \in (i + 1)..(j - 1) : cells[h].kind # "code"
    ELSE Len(cells) + 1

\* An uncaught exception (here a NameError) ends the run.
Crash(run) == [run EXCEPT !.status = "error"]

Op(run, name, txt, outcome) ==
    [op |-> name, folder |-> txt.folder, outcome |-> outcome, flag |-> run.flag]

\* Mutant: the except suite logs under the root logger and leaves the flag alone.
OnFailure_root_logger(run, txt, failure) ==
    [run EXCEPT !.log = Append(@, [logger |-> NoId, level |-> "error",
                                   err |-> failure])]

\* What the `except ... as err:` suite of lines 168-170, 181-183 and 194-196 does.
OnFailure(run, txt, failure) ==
    [run EXCEPT !.flag = "False",
                !.names = @ \cup {"_pythoneda_no_error_so_far"},
                !.log = Append(@, [logger |-> txt.id, level |-> "error",
                                   err |-> failure])]

\* Lines 139-143.
git_import_exec(run, txt) ==
    [run EXCEPT !.names = @ \cup ImportedNames,
                !.ops = Append(@, Op(run, "import", txt, "ok"))]

\* Mutant: NamedTemporaryFile(delete=True), close() removes the file.
create_diff_exec_delete_on_close(run, txt) ==
    IF "tempfile" \notin run.names
    THEN Crash(run)
    ELSE [run EXCEPT !.names = @ \cup {"patchfile"},
                     !.patchfile = [exists |-> FALSE, closed |-> TRUE,
                                    content |-> PyLiteralValue(txt.diff_literal[1])],
                     !.ops = Append(@, Op(run, "patchfile.write", txt, "ok"))]

\* Lines 153-155.
create_diff_exec(run, txt) ==
    IF "tempfile" \notin run.names
    THEN Crash(run)
    ELSE [run EXCEPT !.names = @ \cup {"patchfile"},
                     !.patchfile = [exists |-> TRUE, closed |-> TRUE,
                                    content |-> PyLiteralValue(txt.diff_literal[1])],
                     !.ops = Append(@, Op(run, "patchfile.write", txt, "ok"))]

\* Lines 164-170.
git_stash_push_exec(run, txt, outcome) ==
    LET bound == [run EXCEPT !.names = @ \cup {"stash_id"}, !.stash_id = ""]
        called == [bound EXCEPT !.ops = Append(@, Op(run, "GitStash.push", txt, outcome))]
    IN IF "GitStash" \notin run.names
       THEN Crash(bound)
       ELSE IF outcome = "ok"
       THEN [called EXCEPT !.stash_id = "stash@{0}"]
       ELSE IF {"GitStashPushFailed", "logging"} \subseteq run.names
       THEN OnFailure(called, txt, "GitStashPushFailed")
       ELSE Crash(called)

\* Mutant: the apply cell has no except clause, GitApplyFailed leaves the cell.
git_apply_exec_uncaught(run, txt, outcome) ==
    LET called == [run EXCEPT !.ops = Append(@, Op(run, "GitApply.apply", txt, outcome))]
    IN IF ~({"GitApply", "patchfile"} \subseteq run.names)
       THEN Crash(run)
       ELSE IF outcome = "ok" THEN called ELSE Crash(called)

\* Lines 179-183.
git_apply_exec(run, txt, outcome) ==
    LET called == [run EXCEPT !.ops = Append(@, Op(run, "GitApply.apply", txt, outcome))]
    IN IF ~({"GitApply", "patchfile"} \subseteq run.names)
       THEN Crash(run)
       ELSE IF outcome = "ok"
       THEN called
       ELSE IF {"GitApplyFailed", "logging"} \subseteq run.names
       THEN OnFailure(called, txt, "GitApplyFailed")
       ELSE Crash(called)

\* Lines 192-196.
git_add_exec(run, txt, outcome) ==
    LET called == [run EXCEPT !.ops = Append(@, Op(run, "GitAdd.add_all", txt, outcome))]
    IN IF "GitAdd" \notin run.names
       THEN Crash(run)
       ELSE IF outcome = "ok"
       THEN called
       ELSE IF {"GitAddAllFailed", "logging"} \subseteq run.names
       THEN OnFailure(called, txt, "GitAddAllFailed")
       ELSE Crash(called)

\* Lines 205-222: the class is defined and CodeRequest.main runs emit_event.
emit_event_exec(run, txt) ==
    IF ~({"PythonedaContext", "asyncio"} \subseteq run.names)
    THEN Crash(run)
    ELSE [run EXCEPT !.names = @ \cup {"CodeRequest", "nest_asyncio", "loop"},
                     !.ops = Append(@, Op(run, "emit_event", txt, "ok"))]

\* Lines 213-217: the ChangeStaged events emit_event hands to the EventEmitter.
emit_event_emits(run, txt) ==
    << [change |-> FromJson(PyLiteralValue(txt.change_literal[1])),
        id |-> txt.id,
        run |-> run.of] >>

\* The namespace after one code cell.
Exec(run, txt, outcome) ==
    CASE txt.tpl = "git_import_code" -> git_import_exec(run, txt)
      [] txt.tpl = "create_diff_code" -> create_diff_exec(run, txt)
      [] txt.tpl = "git_stash_push_code" -> git_stash_push_exec(run, txt, outcome)
      [] txt.tpl = "git_apply_code" -> git_apply_exec(run, txt, outcome)
      [] txt.tpl = "git_add_code" -> git_add_exec(run, txt, outcome)
      [] txt.tpl = "emit_event_code" -> emit_event_exec(run, txt)
      [] OTHER -> run

Fallible(txt) == txt.tpl \in {"git_stash_push_code", "git_apply_code", "git_add_code"}

\* The kernel opens the next emitted code request once the previous run ended.
StartRun ==
    /\ Len(runs) < Len(emitted)
    /\ Len(runs) < NumRuns
    /\ IF runs = <<>> THEN TRUE ELSE runs[Len(runs)].status # "running"
    /\ LET k == Len(runs) + 1
           first == NextCode(CellsOf(k), 0)
       IN runs' = Append(runs, [NewRun(k) EXCEPT !.cell = first,
                                                 !.status = IF first > Len(CellsOf(k))
                                                            THEN "done" ELSE "running"])
    /\ UNCHANGED <<event, pc, code_request, result, logger, emitted, running, staged>>
    /\ UNCHANGED <<document, singleton, caller, initialized>>

\* The kernel executes the next code cell of run k.
ExecCell(k) ==
    /\ k \in DOMAIN runs
    /\ runs[k].status = "running"
    /\ LET run == runs[k]
           txt == CellsOf(k)[run.cell].text
       IN \E outcome \in (IF Fallible(txt) THEN GitOutcomes ELSE {"ok"}) :
             LET after == Exec(run, txt, outcome)
                 next == NextCode(CellsOf(k), run.cell)
                 moved == IF after.status = "error"
                          THEN after
                          ELSE [after EXCEPT !.cell = next,
                                             !.status = IF next > Len(CellsOf(k))
                                                        THEN "done" ELSE "running"]
             IN /\ runs' = [runs EXCEPT ![k] = moved]
                /\ staged' = IF txt.tpl = "emit_event_code" /\ after.status # "error"
                             THEN staged \o emit_event_emits(run, txt)
                             ELSE staged
    /\ UNCHANGED <<event, pc, code_request, result, logger, emitted, running>>
    /\ UNCHANGED <<document, singleton, caller, initialized>>

(***************************************************************************)
(* The dependencies of a code request                                      *)
(*                                                                         *)
(* JupyterlabCodeRequest keeps, beside its cells, the dependencies of its  *)
(* code cells: append_code adds the ones whose name it does not hold yet.  *)
(***************************************************************************)

\* append_code's merge of the dependencies of one cell into those held so far:
\* the ones whose name is neither held nor given earlier in the same list are
\* added at the end, in the order given.
Merge(held, deps) ==
    LET fresh == {i \in DOMAIN deps :
                     /\ \A h \in DOMAIN held : held[h].name # deps[i].name
                     /\ \A q \in 1..(i - 1) : deps[q].name # deps[i].name}
        nth(k) == CHOOSE i \in fresh : Cardinality({q \in fresh : q < i}) = k - 1
    IN held \o [k \in 1..Cardinality(fresh) |-> deps[nth(k)]]

\* The dependencies a code request holds after its cells were appended in order.
RECURSIVE DocumentDependencies(_)
DocumentDependencies(cells) ==
    IF cells = <<>>
    THEN <<>>
    ELSE LET before == DocumentDependencies(SubSeq(cells, 1, Len(cells) - 1))
             last == cells[Len(cells)]
         IN IF last.kind = "code" THEN Merge(before, last.dependencies) ELSE before

\* The dependency lists a caller other than the listener passes to append_code.
Unidiff1 == PythonedaDependency("unidiff", "1.0")
Unidiff2 == PythonedaDependency("unidiff", "2.0")
Requests1 == PythonedaDependency("requests", "1.0")

DependencyLists ==
    { <<>>, <<Unidiff1>>, <<Unidiff2>>, <<Unidiff1, Requests1>>,
      <<Unidiff2, Unidiff1>>, <<Requests1, Unidiff2>> }

\* code_request.append_markdown(txt) on the caller's code request.
AppendMarkdownCall ==
    /\ Len(document) < MaxCells
    /\ document' = append_markdown(document, [Blank EXCEPT !.tpl = "note"])
    /\ UNCHANGED <<event, pc, code_request, result, logger, emitted, running, runs, staged>>
    /\ UNCHANGED <<singleton, caller, initialized>>

\* code_request.append_code(txt, deps) on the caller's code request.
AppendCodeCall ==
    /\ Len(document) < MaxCells
    /\ \E deps \in DependencyLists :
          document' = append_code(document, [Blank EXCEPT !.tpl = "snippet"], deps)
    /\ UNCHANGED <<event, pc, code_request, result, logger, emitted, running, runs, staged>>
    /\ UNCHANGED <<singleton, caller, initialized>>

(***************************************************************************)
(* GitArtifact.instance(), lines 60-70, called by threads                  *)
(*                                                                         *)
(* Nothing in instance() takes a lock, so a thread can be preempted        *)
(* between the test of line 67 and the assignment of line 68.              *)
(***************************************************************************)

Callers == 1..NumCallers

\* A thread calls GitArtifact.instance().
CallInstance(t) ==
    /\ caller[t].pc \in {"idle", "done"}
    /\ caller' = [caller EXCEPT ![t] = [pc |-> "test", got |-> <<>>]]
    /\ UNCHANGED <<event, pc, code_request, result, logger, emitted, running, runs, staged>>
    /\ UNCHANGED <<document, singleton, initialized>>

\* Line 67: if cls._singleton is None.
TestSingleton(t) ==
    /\ caller[t].pc = "test"
    /\ caller' = [caller EXCEPT ![t].pc = IF singleton = <<>> THEN "initialize" ELSE "return"]
    /\ UNCHANGED <<event, pc, code_request, result, logger, emitted, running, runs, staged>>
    /\ UNCHANGED <<document, singleton, initialized>>

\* Line 68: cls._singleton = cls.initialize(), a new instance each time.
InitializeSingleton(t) ==
    /\ caller[t].pc = "initialize"
    /\ initialized' = initialized + 1
    /\ singleton' = << [instance |-> initialized + 1] >>
    /\ caller' = [caller EXCEPT ![t].pc = "return"]
    /\ UNCHANGED <<event, pc, code_request, result, logger, emitted, running, runs, staged>>
    /\ UNCHANGED document

\* Line 70: return cls._singleton.
ReturnSingleton(t) ==
    /\ caller[t].pc = "return"
    /\ caller' = [caller EXCEPT ![t] = [pc |-> "done", got |-> singleton]]
    /\ UNCHANGED <<event, pc, code_request, result, logger, emitted, running, runs, staged>>
    /\ UNCHANGED <<document, singleton, initialized>>

InstanceNext ==
    \/ \E t \in Callers : CallInstance(t)
    \/ \E t \in Callers : TestSingleton(t)
    \/ \E t \in Callers : InitializeSingleton(t)
    \/ \E t \in Callers : ReturnSingleton(t)

InstanceSpec == Init /\ [][InstanceNext]_vars

(***************************************************************************)
(* Repeated delivery                                                       *)
(***************************************************************************)

\* The dispatcher calls the listener again with an event it delivered before:
\* the same id and the same change.  Line 85 as in Deliver.
Redeliver(r) ==
    /\ running = 0
    /\ pc[r] = "idle"
    /\ r > 1
    /\ pc[r - 1] # "idle"
    /\ \E q \in 1..(r - 1) : event' = [event EXCEPT ![r] = event[q]]
    /\ code_request' = [code_request EXCEPT ![r] = <<>>]
    /\ pc' = [pc EXCEPT ![r] = "check"]
    /\ running' = r
    /\ UNCHANGED <<result, logger, emitted, runs, staged>>
    /\ UNCHANGED <<document, singleton, caller, initialized>>

ReplayNext ==
    \/ \E r \in Requests : Deliver(r)
    \/ \E r \in Requests : Redeliver(r)
    \/ \E r \in Requests : Discard(r)
    \/ \E r \in Requests : Proceed(r)
    \/ \E r \in Requests : AppendSegment(r)
    \/ \E r \in Requests : Emit(r)
    \/ \E r \in Requests : Return(r)

ReplaySpec == Init /\ [][ReplayNext]_vars

\* The listener alone: every delivered event is handled.
Next ==
    \/ \E r \in Requests : Deliver(r)
    \/ \E r \in Requests : Discard(r)
    \/ \E r \in Requests : Proceed(r)
    \/ \E r \in Requests : AppendSegment(r)
    \/ \E r \in Requests : Emit(r)
    \/ \E r \in Requests : Return(r)

Spec == Init /\ [][Next]_vars

\* The listener and the kernel: the first NumRuns events are handled and the
\* code requests emitted for them are executed.
Executed == Requests \cap 1..NumRuns

ScriptNext ==
    \/ \E r \in Executed : Deliver(r)
    \/ \E r \in Executed : Discard(r)
    \/ \E r \in Executed : Proceed(r)
    \/ \E r \in Executed : AppendSegment(r)
    \/ \E r \in Executed : Emit(r)
    \/ \E r \in Executed : Return(r)
    \/ StartRun
    \/ \E k \in 1..NumRuns : ExecCell(k)

\* The kernel runs a script it has started to its end.
ScriptSpec ==
    Init /\ [][ScriptNext]_vars /\ WF_vars(\E k \in 1..NumRuns : ExecCell(k))

(***************************************************************************)
(* Properties                                                              *)
(***************************************************************************)

\* The number of calls to EventEmitter.emit made by invocation r.
EmitCallsBy(r) == Cardinality({k \in DOMAIN emitted : emitted[k].by = r})

Delivered(r) == pc[r] # "idle"

\* Invocation r has finished building its code request.
Assembled(r) == pc[r] \in {"emit", "awaiting", "returned"}

DiffOf(r) == event[r].change.unidiff_text

NonEmptyDiff(r) == DiffOf(r).type = "str" /\ DiffOf(r).value # ""

Kinds(cells) == [i \in DOMAIN cells |-> cells[i].kind]

Templates(cells) == [i \in DOMAIN cells |-> cells[i].text.tpl]

IsPrefix(s, t) == Len(s) <= Len(t) /\ \A i \in DOMAIN s : s[i] = t[i]

\* The fixed sequence of the specification: intro; deps; diff-materialize; stash;
\* apply; stage; emit.
FixedKinds ==
    << "markdown",
       "markdown", "code",
       "markdown", "code",
       "markdown", "code",
       "markdown", "code",
       "markdown", "code",
       "markdown", "code" >>

FixedTemplates ==
    << "introduction",
       "git_import_description", "git_import_code",
       "create_diff_description", "create_diff_code",
       "git_stash_description", "git_stash_push_code",
       "git_apply_description", "git_apply_code",
       "git_add_description", "git_add_code",
       "emit_event_description", "emit_event_code" >>

\* C1 (as claimed): a request whose diff text is absent (None) or empty ("") is
\* discarded: no result, no call to the emitter.
C1_EmptyOrAbsentDiffDiscarded ==
    \A r \in Requests :
        (Delivered(r) /\ DiffOf(r) \in {NoneText, EmptyText})
            => /\ EmitCallsBy(r) = 0
               /\ result[r] = <<>>

\* C2: for a non-empty diff text the cells are appended in the fixed order
\* markdown, then markdown and code for deps, diff, stash, apply, stage, emit:
\* while it is built the code request is a prefix of that sequence, and the
\* assembled one is the whole sequence.
C2_FixedSegmentOrder ==
    \A r \in Requests :
        (Delivered(r) /\ NonEmptyDiff(r))
            => /\ IsPrefix(Kinds(code_request[r]), FixedKinds)
               /\ IsPrefix(Templates(code_request[r]), FixedTemplates)
               /\ Assembled(r) => /\ Kinds(code_request[r]) = FixedKinds
                                  /\ Templates(code_request[r]) = FixedTemplates

C2_Witness ==
    \E r \in Requests :
        /\ pc[r] = "returned"
        /\ NonEmptyDiff(r)
        /\ Kinds(code_request[r]) = FixedKinds

\* C3 (as claimed): the code request assembled for a non-empty diff has 7 segments.
C3_SevenSegments ==
    \A r \in Requests :
        (Assembled(r) /\ NonEmptyDiff(r)) => Len(code_request[r]) = 7

\* C3 (amended): the code request assembled for a non-empty diff has 13 segments,
\* 7 markdown and 6 code.
C3_ThirteenSegments ==
    \A r \in Requests :
        (Assembled(r) /\ NonEmptyDiff(r))
            => /\ Len(code_request[r]) = 13
               /\ Cardinality({i \in DOMAIN code_request[r] :
                                  code_request[r][i].kind = "markdown"}) = 7
               /\ Cardinality({i \in DOMAIN code_request[r] :
                                  code_request[r][i].kind = "code"}) = 6

C3_Witness ==
    \E r \in Requests :
        /\ Assembled(r)
        /\ NonEmptyDiff(r)
        /\ event[r].change.repository_folder = "/repo"
        /\ event[r].change.branch = "main"
        /\ Len(code_request[r]) = 13

\* C4: the id of every emitted ChangeStagingCodeDescribed is the id of the event
\* whose handling emitted it, and so is the id of the result of that handling.
C4_CorrelationIdPreserved ==
    /\ \A k \in DOMAIN emitted :
          /\ emitted[k].event.id = event[emitted[k].by].id
          /\ emitted[k].event.id = EventId(emitted[k].by)
          /\ \A r \in Requests \ {emitted[k].by} :
                Delivered(r) => emitted[k].event.id # event[r].id
    /\ \A r \in Requests :
          result[r] # <<>> => result[r][1].id = event[r].id

C4_Witness ==
    /\ Len(emitted) = 2
    /\ emitted[1].event.id # emitted[2].event.id
    /\ \A r \in Requests : pc[r] = "returned"

(***************************************************************************)
(* Properties of the execution of the generated script                     *)
(***************************************************************************)

\* The positions in the operations of a run at which `name` was invoked.
Invocations(run, name) == {i \in DOMAIN run.ops : run.ops[i].op = name}

\* `name` was invoked by the run and raised its declared failure.
Failed(run, name) == \E i \in Invocations(run, name) : run.ops[i].outcome = "failed"

\* The ChangeStaged events emitted by run k.
StagedBy(k) == {i \in DOMAIN staged : staged[i].run = k}

\* The event whose handling emitted the code request run k executes.
RequestOf(k) == event[emitted[k].by]

\* C5 (as claimed): GitApply.apply is invoked only while the run-continues flag
\* is still true: a run in which GitStash.push failed never invokes it.
C5_ApplyOnlyIfStashSucceeded ==
    \A k \in DOMAIN runs :
        Failed(runs[k], "GitStash.push") => Invocations(runs[k], "GitApply.apply") = {}

\* C6 (as claimed): GitAdd.add_all is invoked only while the run-continues flag is
\* still true: a run in which GitStash.push or GitApply.apply failed never
\* invokes it.
C6_AddOnlyIfStashAndApplySucceeded ==
    \A k \in DOMAIN runs :
        (Failed(runs[k], "GitStash.push") \/ Failed(runs[k], "GitApply.apply"))
            => Invocations(runs[k], "GitAdd.add_all") = {}

\* Run k has ended after its last cell and has emitted exactly one ChangeStaged
\* event, which carries the id of the original request.
Completed(k) ==
    /\ k \in DOMAIN runs
    /\ runs[k].status = "done"
    /\ Cardinality(StagedBy(k)) = 1
    /\ \A i \in StagedBy(k) : staged[i].id = RequestOf(k).id

\* C7: every started execution of a generated script, whichever of stash, apply
\* and stage fail, eventually reaches the completion cell and has then emitted
\* exactly one ChangeStaged event with the id of the original request.
C7_CompletionAlwaysEmitted ==
    \A k \in 1..NumRuns : (k \in DOMAIN runs) ~> Completed(k)

C7_Witness ==
    \E k \in DOMAIN runs :
        /\ Completed(k)
        /\ Failed(runs[k], "GitStash.push")
        /\ Failed(runs[k], "GitApply.apply")
        /\ Failed(runs[k], "GitAdd.add_all")

\* The step taken is the execution by run k of a fallible cell that failed.
FailingStep(k) ==
    /\ k \in DOMAIN runs
    /\ k \in DOMAIN runs'
    /\ Len(runs'[k].ops) = Len(runs[k].ops) + 1
    /\ LET op == runs'[k].ops[Len(runs'[k].ops)]
       IN /\ op.op \in {"GitStash.push", "GitApply.apply", "GitAdd.add_all"}
          /\ op.outcome = "failed"

\* C8: a step in which stash, apply or stage fails does not raise: the run goes
\* on, the flag is False afterwards, one error record is logged under the logger
\* named by the id of the original request, and the next code cell is the one
\* to execute.
C8_FailureIsContained ==
    [][\A k \in 1..NumRuns :
          FailingStep(k)
              => /\ runs'[k].status = "running"
                 /\ runs'[k].flag = "False"
                 /\ Len(runs'[k].log) = Len(runs[k].log) + 1
                 /\ runs'[k].log[Len(runs'[k].log)].logger = RequestOf(k).id
                 /\ runs'[k].log[Len(runs'[k].log)].level = "error"
                 /\ runs'[k].cell > runs[k].cell
                 /\ runs'[k].cell = NextCode(CellsOf(k), runs[k].cell)
                 /\ CellsOf(k)[runs'[k].cell].kind = "code"]_vars

C8_Witness ==
    \E k \in DOMAIN runs :
        /\ Failed(runs[k], "GitStash.push")
        /\ runs[k].status = "running"
        /\ runs[k].flag = "False"
        /\ Len(runs[k].log) = 1
        /\ CellsOf(k)[runs[k].cell].text.tpl = "git_apply_code"

(***************************************************************************)
(* Properties of the emission                                              *)
(***************************************************************************)

\* C9: an invocation calls the emitter at most once; one that has returned for a
\* present diff has called it exactly once; and at every call the code request
\* handed over already held all its segments, none being appended afterwards.
C9_AtMostOneEmission ==
    /\ \A r \in Requests :
          /\ EmitCallsBy(r) <= 1
          /\ (pc[r] = "returned" /\ DiffOf(r) # NoneText) => EmitCallsBy(r) = 1
          /\ (Delivered(r) /\ DiffOf(r) = NoneText) => EmitCallsBy(r) = 0
    /\ \A k \in DOMAIN emitted :
          /\ Templates(emitted[k].event.code_request) = FixedTemplates
          /\ emitted[k].event.code_request = code_request[emitted[k].by]

C9_Witness ==
    \E r, q \in Requests :
        /\ pc[r] = "returned"
        /\ EmitCallsBy(r) = 1
        /\ pc[q] = "returned"
        /\ EmitCallsBy(q) = 0

\* The change of invocation r cannot be serialized: json.dumps of its diff text
\* or its to_json raises.
Malformed(r) ==
    /\ DiffOf(r) # NoneText
    /\ \/ DiffOf(r).type = "bytes"
       \/ ~event[r].change.serializable

\* C10: the handling of a malformed change never calls the emitter and never
\* returns: once the coroutine has given up control it has raised; and no
\* emitted event holds a partially built code request.
C10_AssemblyFailurePropagates ==
    /\ \A r \in Requests :
          (Delivered(r) /\ Malformed(r))
              => /\ EmitCallsBy(r) = 0
                 /\ result[r] = <<>>
                 /\ pc[r] \notin {"emit", "awaiting", "returned"}
                 /\ running # r => pc[r] = "raised"
    /\ \A k \in DOMAIN emitted :
          /\ ~Malformed(emitted[k].by)
          /\ Len(emitted[k].event.code_request) = Len(FixedTemplates)

C10_Witness ==
    \E r \in Requests :
        /\ pc[r] = "raised"
        /\ ~event[r].change.serializable
        /\ Len(code_request[r]) = 12
        /\ EmitCallsBy(r) = 0

(***************************************************************************)
(* Properties of the dependencies                                          *)
(***************************************************************************)

\* The listener handles the first event while a caller fills a code request.
DocumentNext ==
    \/ Deliver(1)
    \/ Discard(1)
    \/ Proceed(1)
    \/ AppendSegment(1)
    \/ Emit(1)
    \/ Return(1)
    \/ AppendMarkdownCall
    \/ AppendCodeCall

DocumentSpec == Init /\ [][DocumentNext]_vars

\* The dependencies declared by the code cells, in append order.
RECURSIVE Declared(_)
Declared(cells) ==
    IF cells = <<>>
    THEN <<>>
    ELSE Declared(SubSeq(cells, 1, Len(cells) - 1))
            \o (IF cells[Len(cells)].kind = "code"
                THEN cells[Len(cells)].dependencies ELSE <<>>)

\* The position of the first declaration of a name.
FirstDeclaration(decl, name) ==
    CHOOSE p \in DOMAIN decl :
        /\ decl[p].name = name
        /\ \A q \in 1..(p - 1) : decl[q].name # name

\* held is decl deduplicated by name: each declared name once, with the version of
\* its first declaration, in the order of the first declarations.
FirstSeenWins(held, decl) ==
    /\ \A i, j \in DOMAIN held : i # j => held[i].name # held[j].name
    /\ \A p \in DOMAIN decl : \E i \in DOMAIN held : held[i].name = decl[p].name
    /\ \A i \in DOMAIN held :
          /\ \E p \in DOMAIN decl : decl[p].name = held[i].name
          /\ held[i] = decl[FirstDeclaration(decl, held[i].name)]
    /\ \A i, j \in DOMAIN held :
          i < j => FirstDeclaration(decl, held[i].name) < FirstDeclaration(decl, held[j].name)

\* Invocation r has built a code request (its event carried a diff).
Built(r) == Assembled(r) /\ ~NothingToStage(event[r])

\* C11: the dependencies of a code request hold each name once, in first-seen
\* order and with the first-appended version, after any sequence of appends; for
\* the code request assembled by the listener they are exactly the list given
\* to every append_code call.
C11_DependenciesDeduplicated ==
    /\ FirstSeenWins(DocumentDependencies(document), Declared(document))
    /\ \A r \in Requests :
          /\ FirstSeenWins(DocumentDependencies(code_request[r]), Declared(code_request[r]))
          /\ Built(r) => DocumentDependencies(code_request[r]) = dependencies

C11_Witness ==
    /\ Len(document) = 2
    /\ document[1].kind = "code" /\ document[1].dependencies = <<Unidiff1, Requests1>>
    /\ document[2].kind = "code" /\ document[2].dependencies = <<Unidiff2>>
    /\ DocumentDependencies(document) = <<Unidiff1, Requests1>>
    /\ Built(1)
    /\ Len(DocumentDependencies(code_request[1])) = 20

(***************************************************************************)
(* Properties of concurrent invocations                                    *)
(***************************************************************************)

\* Every value interpolated into the cell is taken from event e.
OwnCell(c, e) ==
    /\ c.text.id \in {NoId, e.id}
    /\ c.text.tpl \in {"git_stash_push_code", "git_apply_code", "git_add_code",
                       "emit_event_code"} => c.text.id = e.id
    /\ c.text.folder \in {"", e.change.repository_folder}
    /\ c.text.tpl = "introduction" => c.text.diff = e.change.unidiff_text.value
    /\ c.text.tpl = "create_diff_code"
          => c.text.diff_literal = << [quoted |-> e.change.unidiff_text.value] >>
    /\ c.text.tpl = "emit_event_code"
          => c.text.change_literal = << [quoted |-> e.change] >>

\* Every emitted event holds the 13 cells built from the event of the invocation
\* that emitted it, and its id.
OwnDocuments ==
    \A k \in DOMAIN emitted :
        LET e == event[emitted[k].by]
            cells == emitted[k].event.code_request
        IN /\ emitted[k].event.id = e.id
           /\ Len(cells) = 13
           /\ \A i \in DOMAIN cells : OwnCell(cells[i], e)

\* A step changes the code request of the running invocation only, and never an
\* emitted event.
OwnAppends ==
    /\ \A q \in Requests : code_request'[q] # code_request[q] => running = q
    /\ \A k \in DOMAIN emitted : k \in DOMAIN emitted' /\ emitted'[k] = emitted[k]

\* C12: when invocations interleave at the awaited emit, every emitted event holds
\* only cells built from its own request's change and id, and no invocation
\* appends to the code request of another.
C12_InvocationsIsolated == []OwnDocuments /\ [][OwnAppends]_vars

C12_Witness ==
    /\ NumReq >= 2
    /\ pc[1] = "awaiting"
    /\ pc[2] = "awaiting"
    /\ DiffOf(1) # DiffOf(2)
    /\ Len(emitted) = 2
    /\ emitted[1].event.code_request # emitted[2].event.code_request

(***************************************************************************)
(* Properties of the run-continues flag, the singleton and the patch file  *)
(***************************************************************************)

\* C13 (as claimed): the flag _pythoneda_no_error_so_far is True when the first
\* fallible cell (stash) starts, is False only after a fallible cell failed, and
\* once False it is not True at any later operation.
C13_FlagContinuingThenFaulted ==
    \A k \in DOMAIN runs :
        LET ops == runs[k].ops
        IN /\ \A i \in Invocations(runs[k], "GitStash.push") : ops[i].flag = "True"
           /\ runs[k].flag = "False"
                 => \E i \in DOMAIN ops : ops[i].outcome = "failed"
           /\ \A i, j \in DOMAIN ops :
                 (i < j /\ ops[i].flag = "False") => ops[j].flag = "False"

\* C14 (as claimed): initialize() is performed at most once and all calls of
\* instance() return the same instance, however the calls interleave.
C14_SingleInstance ==
    /\ initialized <= 1
    /\ \A t, u \in Callers :
          (caller[t].pc = "done" /\ caller[u].pc = "done") => caller[t].got = caller[u].got

\* C15: once the diff cell has written and closed the patch file, the file exists
\* in every later state of the run, with the diff text of the request as its
\* content; no cell removes it.
C15_PatchFileKept ==
    \A k \in DOMAIN runs :
        Invocations(runs[k], "patchfile.write") # {}
            => /\ runs[k].patchfile.exists
               /\ runs[k].patchfile.closed
               /\ runs[k].patchfile.content = RequestOf(k).change.unidiff_text.value

C15_Witness ==
    \E k \in DOMAIN runs :
        /\ runs[k].status = "done"
        /\ Invocations(runs[k], "GitApply.apply") # {}
        /\ Invocations(runs[k], "GitAdd.add_all") # {}
        /\ runs[k].patchfile.exists

(***************************************************************************)
(* Determinism, the dependencies of the cells, the order of execution      *)
(***************************************************************************)

C17_CodeCellsCarryDependencies ==
    \A r \in Requests :
        \A i \in DOMAIN code_request[r] :
            LET c == code_request[r][i]
            IN /\ c.kind = "markdown" => c.dependencies = <<>>
               /\ c.kind = "code"
                     => /\ Len(c.dependencies) = 20
                        /\ \A a, b \in DOMAIN c.dependencies :
                              a # b => c.dependencies[a].name # c.dependencies[b].name
                        /\ \A j \in DOMAIN code_request[r] :
                              code_request[r][j].kind = "code"
                                  => code_request[r][j].dependencies = c.dependencies

C17_Witness ==
    \E r \in Requests :
        /\ Built(r)
        /\ Cardinality({i \in DOMAIN code_request[r] :
                           /\ code_request[r][i].kind = "code"
                           /\ Len(code_request[r][i].dependencies) = 20}) = 6
        /\ Cardinality({i \in DOMAIN code_request[r] :
                           /\ code_request[r][i].kind = "markdown"
                           /\ code_request[r][i].dependencies = <<>>}) = 7

\* The operations of a script in the order of its cells.
FixedOperations ==
    << "import", "patchfile.write", "GitStash.push", "GitApply.apply",
       "GitAdd.add_all", "emit_event" >>

OperationNames(run) == [i \in DOMAIN run.ops |-> run.ops[i].op]

\* C18: executed in document order the cells import, write and close the patch
\* file, push the stash, apply, add and emit, in that order; no cell reads a
\* name that is not bound (no run ends in a NameError); apply is invoked only
\* when the patch file exists and the stash push was attempted.
C18_ExecutionOrder ==
    \A k \in DOMAIN runs :
        /\ IsPrefix(OperationNames(runs[k]), FixedOperations)
        /\ runs[k].status # "error"
        /\ runs[k].status = "done" => OperationNames(runs[k]) = FixedOperations
        /\ Invocations(runs[k], "GitApply.apply") # {}
              => /\ runs[k].patchfile.exists
                 /\ Invocations(runs[k], "GitStash.push") # {}
                 /\ {"tempfile", "logging", "GitApply", "patchfile"} \subseteq runs[k].names

C18_Witness ==
    \E k \in DOMAIN runs :
        /\ runs[k].status = "done"
        /\ OperationNames(runs[k]) = FixedOperations
        /\ {"patchfile", "stash_id", "CodeRequest"} \subseteq runs[k].names

====
